---- MODULE Spec2Model ----
(***************************************************************************)
(* prisma-query: the comparison AST (src/ast/compare.rs), the column       *)
(* reference (src/ast/column.rs), the ROW_NUMBER builder                   *)
(* (src/ast/function/row_number.rs), the rendering of these into SQL text  *)
(* plus an ordered parameter list, and the translation of MySQL errors     *)
(* (src/connector/mysql/error.rs).                                         *)
(*                                                                         *)
(* SQL text is a sequence of lexical tokens (whitespace is not modelled).  *)
(* A quoted identifier is one token.  Text values and LIKE patterns are    *)
(* strings, so wrapping a pattern is string concatenation.                 *)
(***************************************************************************)
EXTENDS Integers, Sequences, FiniteSets, TLC

VARIABLES
    query,      \* Option<Select>: the query the caller has composed
    call,       \* Option: the Comparable operation that composed it, with its arguments
    result,     \* Option<(sql, params)>: what Sqlite::build returned for query
    column,     \* Option<Column>: a column under construction
    column_start, \* Option<Column>: column as its constructor or conversion returned it
    column_calls, \* the table / opt_table / alias calls made on column, in call order
    mysql_error,  \* Option<my::error::Error>: the error handed to Error::from
    error,        \* Option: how Error::from(mysql_error) ended
    rn,         \* Option<RowNumber>: a row_number() under construction
    rn_calls,   \* the order_by / partition_by calls made on rn, in call order
    rn_sql      \* Option<sql>: the rendering of rn

vars == <<query, call, result, column, column_start, column_calls,
         mysql_error, error, rn, rn_calls, rn_sql>>

(***************************************************************************)
(* Bounds of the model.                                                    *)
(***************************************************************************)
MaxListLen == 2     \* longest caller-supplied value list given to in_selection
MaxLeaves == 3      \* most comparisons in one condition tree
MaxNots == 1        \* most negations in one condition tree
MaxCalls == 3       \* most order_by / partition_by calls on one row_number()
MaxColumnCalls == 2 \* most table / opt_table / alias calls on one column

(***************************************************************************)
(* Option<T>                                                               *)
(***************************************************************************)
None == [tag |-> "None"]
Some(x) == [tag |-> "Some", v |-> x]
IsSome(o) == o.tag = "Some"

(***************************************************************************)
(* Inputs the caller may pass.  A Rust argument is tagged with its type so *)
(* that the Into conversions have something to dispatch on.                *)
(***************************************************************************)
Str(s) == [rust |-> "str", s |-> s]
StringOf(s) == [rust |-> "String", s |-> s]
I64(i) == [rust |-> "i64", i |-> i]
Vec(xs) == [rust |-> "Vec", items |-> xs]
Tuple(t, c) == [rust |-> "tuple", t |-> t, c |-> c]
Col(c) == [rust |-> "Column", col |-> c]

(***************************************************************************)
(* src/ast/column.rs                                                       *)
(***************************************************************************)
\* Table is declared in another module of the crate; a table reference is
\* its name.
Table_from(t) == [name |-> t]

Column_default == [name |-> "", table |-> None, alias |-> None]

Column_new(name) == [Column_default EXCEPT !.name = name]

Column_table(self, table) == [self EXCEPT !.table = Some(Table_from(table))]

\* opt_table taking None for "no table": the table set earlier is dropped.
Column_opt_table_clearing(self, table) ==
    IF IsSome(table) THEN [self EXCEPT !.table = Some(Table_from(table.v))]
    ELSE [self EXCEPT !.table = None]

Column_opt_table(self, table) ==
    IF IsSome(table) THEN [self EXCEPT !.table = Some(Table_from(table.v))]
    ELSE self

Column_alias(self, alias) == [self EXCEPT !.alias = Some(alias)]

Column_from_str(s) == [Column_default EXCEPT !.name = s]

Column_from_String(s) == [Column_default EXCEPT !.name = s]

\* U: Into<Column>: the conversions column.rs offers, by the type of the operand.
RECURSIVE IntoColumn(_)
Column_from_tuple(t) == Column_table(IntoColumn(t.c), t.t)

IntoColumn(u) ==
    CASE u.rust = "str" -> Column_from_str(u.s)
      [] u.rust = "String" -> Column_from_String(u.s)
      [] u.rust = "tuple" -> Column_from_tuple(u)
      [] u.rust = "Column" -> u.col

\* The column taken for a text value instead of a column reference.
DatabaseValue_from_Column_as_text(col) ==
    [kind |-> "Parameterized", value |-> [t |-> "Text", s |-> col.name]]

\* impl From<Column> for DatabaseValue
DatabaseValue_from_Column(col) == [kind |-> "Column", col |-> col]

(***************************************************************************)
(* Values.  ParameterizedValue and DatabaseValue are declared in another   *)
(* module of the crate; their shape is the one the doc tests of compare.rs *)
(* show (ParameterizedValue::Integer, ParameterizedValue::from("bar")).   *)
(***************************************************************************)
Integer(i) == [t |-> "Integer", i |-> i]
Text(s) == [t |-> "Text", s |-> s]
Parameterized(pv) == [kind |-> "Parameterized", value |-> pv]
Row(values) == [kind |-> "Row", values |-> values]

\* T: Into<DatabaseValue>
RECURSIVE IntoDatabaseValue(_)
IntoDatabaseValue(x) ==
    CASE x.rust = "i64" -> Parameterized(Integer(x.i))
      [] x.rust = "str" -> Parameterized(Text(x.s))
      [] x.rust = "Column" -> DatabaseValue_from_Column(x.col)
      [] x.rust = "Vec" ->
            Row([k \in 1..Len(x.items) |-> IntoDatabaseValue(x.items[k])])

(***************************************************************************)
(* src/ast/compare.rs: enum Compare.  One constructor per variant, fields  *)
(* in the order of the variant's payload.                                  *)
(***************************************************************************)
Compare2(op, left, right) == [op |-> op, left |-> left, right |-> right]
CompareLike(op, left, pattern) == [op |-> op, left |-> left, pattern |-> pattern]
Compare1(op, value) == [op |-> op, value |-> value]
Compare3(op, value, left, right) ==
    [op |-> op, value |-> value, left |-> left, right |-> right]

\* impl From<Compare> for Expression
Expression_from_Compare(cmp) == [kind |-> "Compare", cmp |-> cmp]

\* ConditionTree::single
ConditionTree_single(expr) == [kind |-> "Single", expr |-> expr]

\* impl From<Compare> for ConditionTree
ConditionTree_from_Compare(cmp) == ConditionTree_single(Expression_from_Compare(cmp))

(***************************************************************************)
(* impl Comparable for DatabaseValue: what the blanket implementation      *)
(* delegates to.  Each operation boxes self and the converted arguments    *)
(* into the variant of its own name.                                       *)
(***************************************************************************)
DatabaseValue_equals(self, comparison) ==
    Compare2("Equals", self, IntoDatabaseValue(comparison))
DatabaseValue_not_equals(self, comparison) ==
    Compare2("NotEquals", self, IntoDatabaseValue(comparison))
DatabaseValue_less_than(self, comparison) ==
    Compare2("LessThan", self, IntoDatabaseValue(comparison))
DatabaseValue_less_than_or_equals(self, comparison) ==
    Compare2("LessThanOrEquals", self, IntoDatabaseValue(comparison))
DatabaseValue_greater_than(self, comparison) ==
    Compare2("GreaterThan", self, IntoDatabaseValue(comparison))
DatabaseValue_greater_than_or_equals(self, comparison) ==
    Compare2("GreaterThanOrEquals", self, IntoDatabaseValue(comparison))
DatabaseValue_in_selection(self, selection) ==
    Compare2("In", self, IntoDatabaseValue(selection))
DatabaseValue_not_in_selection(self, selection) ==
    Compare2("NotIn", self, IntoDatabaseValue(selection))
DatabaseValue_like(self, pattern) == CompareLike("Like", self, pattern)
DatabaseValue_not_like(self, pattern) == CompareLike("NotLike", self, pattern)
DatabaseValue_begins_with(self, pattern) == CompareLike("BeginsWith", self, pattern)
DatabaseValue_not_begins_with(self, pattern) ==
    CompareLike("NotBeginsWith", self, pattern)
DatabaseValue_ends_into(self, pattern) == CompareLike("EndsInto", self, pattern)
DatabaseValue_not_ends_into(self, pattern) ==
    CompareLike("NotEndsInto", self, pattern)
DatabaseValue_is_null(self) == Compare1("Null", self)
DatabaseValue_is_not_null(self) == Compare1("NotNull", self)
DatabaseValue_between(self, left, right) ==
    Compare3("Between", self, IntoDatabaseValue(left), IntoDatabaseValue(right))
DatabaseValue_not_between(self, left, right) ==
    Compare3("NotBetween", self, IntoDatabaseValue(left), IntoDatabaseValue(right))

(***************************************************************************)
(* src/ast/compare.rs: impl<U: Into<Column>> Comparable for U.             *)
(***************************************************************************)
equals(self, comparison) ==
    LET col == IntoColumn(self)
        val == DatabaseValue_from_Column(col)
    IN  DatabaseValue_equals(val, comparison)

not_equals(self, comparison) ==
    LET col == IntoColumn(self)
        val == DatabaseValue_from_Column(col)
    IN  DatabaseValue_not_equals(val, comparison)

\* The operands the other way round.
less_than_swapped(self, comparison) ==
    LET col == IntoColumn(self)
        val == DatabaseValue_from_Column(col)
    IN  Compare2("LessThan", IntoDatabaseValue(comparison), val)

less_than(self, comparison) ==
    LET col == IntoColumn(self)
        val == DatabaseValue_from_Column(col)
    IN  DatabaseValue_less_than(val, comparison)

less_than_or_equals(self, comparison) ==
    LET col == IntoColumn(self)
        val == DatabaseValue_from_Column(col)
    IN  DatabaseValue_less_than_or_equals(val, comparison)

greater_than(self, comparison) ==
    LET col == IntoColumn(self)
        val == DatabaseValue_from_Column(col)
    IN  DatabaseValue_greater_than(val, comparison)

greater_than_or_equals(self, comparison) ==
    LET col == IntoColumn(self)
        val == DatabaseValue_from_Column(col)
    IN  DatabaseValue_greater_than_or_equals(val, comparison)

\* Delegating to the negated operation.
in_selection_negated(self, selection) ==
    LET col == IntoColumn(self)
        val == DatabaseValue_from_Column(col)
    IN  DatabaseValue_not_in_selection(val, selection)

in_selection(self, selection) ==
    LET col == IntoColumn(self)
        val == DatabaseValue_from_Column(col)
    IN  DatabaseValue_in_selection(val, selection)

\* Delegating to the positive operation.
not_in_selection_positive(self, selection) ==
    LET col == IntoColumn(self)
        val == DatabaseValue_from_Column(col)
    IN  DatabaseValue_in_selection(val, selection)

not_in_selection(self, selection) ==
    LET col == IntoColumn(self)
        val == DatabaseValue_from_Column(col)
    IN  DatabaseValue_not_in_selection(val, selection)

like(self, pattern) ==
    LET col == IntoColumn(self)
        val == DatabaseValue_from_Column(col)
    IN  DatabaseValue_like(val, pattern)

\* Delegating to the positive operation.
not_like_positive(self, pattern) ==
    LET col == IntoColumn(self)
        val == DatabaseValue_from_Column(col)
    IN  DatabaseValue_like(val, pattern)

not_like(self, pattern) ==
    LET col == IntoColumn(self)
        val == DatabaseValue_from_Column(col)
    IN  DatabaseValue_not_like(val, pattern)

begins_with(self, pattern) ==
    LET col == IntoColumn(self)
        val == DatabaseValue_from_Column(col)
    IN  DatabaseValue_begins_with(val, pattern)

not_begins_with(self, pattern) ==
    LET col == IntoColumn(self)
        val == DatabaseValue_from_Column(col)
    IN  DatabaseValue_not_begins_with(val, pattern)

ends_into(self, pattern) ==
    LET col == IntoColumn(self)
        val == DatabaseValue_from_Column(col)
    IN  DatabaseValue_ends_into(val, pattern)

not_ends_into(self, pattern) ==
    LET col == IntoColumn(self)
        val == DatabaseValue_from_Column(col)
    IN  DatabaseValue_not_ends_into(val, pattern)

is_null(self) ==
    LET col == IntoColumn(self)
        val == DatabaseValue_from_Column(col)
    IN  DatabaseValue_is_null(val)

\* Delegating to the positive operation.
is_not_null_positive(self) ==
    LET col == IntoColumn(self)
        val == DatabaseValue_from_Column(col)
    IN  DatabaseValue_is_null(val)

is_not_null(self) ==
    LET col == IntoColumn(self)
        val == DatabaseValue_from_Column(col)
    IN  DatabaseValue_is_not_null(val)

\* The bounds the other way round.
between_swapped(self, left, right) ==
    LET col == IntoColumn(self)
        val == DatabaseValue_from_Column(col)
    IN  DatabaseValue_between(val, right, left)

between(self, left, right) ==
    LET col == IntoColumn(self)
        val == DatabaseValue_from_Column(col)
    IN  DatabaseValue_between(val, left, right)

not_between(self, left, right) ==
    LET col == IntoColumn(self)
        val == DatabaseValue_from_Column(col)
    IN  DatabaseValue_not_between(val, left, right)

(***************************************************************************)
(* The condition tree combinators and the Select builder.  They live in    *)
(* other modules of the crate and follow the specification: and / or       *)
(* flatten an operand of their own operator, not(x) boxes x, an empty And  *)
(* is the true condition and an empty Or the false one.                    *)
(***************************************************************************)
ConditionTree_And(children) == [kind |-> "And", children |-> children]
ConditionTree_Or(children) == [kind |-> "Or", children |-> children]
ConditionTree_Not(child) == [kind |-> "Not", child |-> child]

ChildrenFor(kind, tree) == IF tree.kind = kind THEN tree.children ELSE <<tree>>

ConditionTree_and(a, b) ==
    ConditionTree_And(ChildrenFor("And", a) \o ChildrenFor("And", b))

ConditionTree_or(a, b) ==
    ConditionTree_Or(ChildrenFor("Or", a) \o ChildrenFor("Or", b))

ConditionTree_not(a) == ConditionTree_Not(a)

Select_from_table(table) == [table |-> Table_from(table), conditions |-> None]

Select_so_that(self, conditions) == [self EXCEPT !.conditions = Some(conditions)]

(***************************************************************************)
(* The renderer (Visitor, Sqlite).  It lives in another module of the      *)
(* crate;                                                                  *)
(* its rules are the specification's and its output on one comparison is   *)
(* what the doc tests of compare.rs assert.  Every visit takes the         *)
(* parameter list collected so far and returns the text it wrote with the  *)
(* list as it left it, which is how the one mutable list is threaded       *)
(* through the traversal.                                                  *)
(***************************************************************************)
\* The identifier quote of the dialect.  The backtick cannot be written in a
\* TLA+ string; the double quote stands for it.
C_BACKTICK == "\""

\* The wildcard of LIKE patterns.
C_WILDCARD == "%"

Out(sql, parameters) == [sql |-> sql, parameters |-> parameters]

parameter_substitution == "?"

delimited_identifier(name) == C_BACKTICK \o name \o C_BACKTICK

visit_parameterized(ps, value) == Out(<<parameter_substitution>>, Append(ps, value))

visit_column(ps, col) ==
    LET name == delimited_identifier(col.name)
        qualified == IF IsSome(col.table)
                     THEN delimited_identifier(col.table.v.name) \o "." \o name
                     ELSE name
    IN  Out(<<qualified>>
              \o (IF IsSome(col.alias)
                  THEN <<"AS", delimited_identifier(col.alias.v)>> ELSE <<>>),
            ps)

RECURSIVE visit_database_value(_, _), visit_row_from(_, _, _)

\* The values of a row from the k-th on, comma separated.
visit_row_from(ps, values, k) ==
    IF k > Len(values) THEN Out(<<>>, ps)
    ELSE LET head == visit_database_value(ps, values[k])
             tail == visit_row_from(head.parameters, values, k + 1)
         IN  Out((IF k > 1 THEN <<",">> ELSE <<>>) \o head.sql \o tail.sql,
                 tail.parameters)

visit_row(ps, values) ==
    LET inner == visit_row_from(ps, values, 1)
    IN  Out(<<"(">> \o inner.sql \o <<")">>, inner.parameters)

visit_database_value(ps, value) ==
    CASE value.kind = "Parameterized" -> visit_parameterized(ps, value.value)
      [] value.kind = "Column" -> visit_column(ps, value.col)
      [] value.kind = "Row" -> visit_row(ps, value.values)

\* left <symbol> right
visit_binary(ps, left, symbol, right) ==
    LET l == visit_database_value(ps, left)
        r == visit_database_value(l.parameters, right)
    IN  Out(l.sql \o symbol \o r.sql, r.parameters)

\* left [NOT] LIKE ?, the wrapped pattern bound as a text parameter
visit_like(ps, left, keyword, wrapped) ==
    LET l == visit_database_value(ps, left)
    IN  Out(l.sql \o keyword \o <<parameter_substitution>>,
            Append(l.parameters, Text(wrapped)))

\* value [NOT] BETWEEN left AND right
visit_between(ps, value, keyword, left, right) ==
    LET v == visit_database_value(ps, value)
        l == visit_database_value(v.parameters, left)
        r == visit_database_value(l.parameters, right)
    IN  Out(v.sql \o keyword \o l.sql \o <<"AND">> \o r.sql, r.parameters)

IsEmptyRow(value) == value.kind = "Row" /\ Len(value.values) = 0

visit_compare(ps, cmp) ==
    CASE cmp.op = "Equals" -> visit_binary(ps, cmp.left, <<"=">>, cmp.right)
      [] cmp.op = "NotEquals" -> visit_binary(ps, cmp.left, <<"<>">>, cmp.right)
      [] cmp.op = "LessThan" -> visit_binary(ps, cmp.left, <<"<">>, cmp.right)
      [] cmp.op = "LessThanOrEquals" -> visit_binary(ps, cmp.left, <<"<=">>, cmp.right)
      [] cmp.op = "GreaterThan" -> visit_binary(ps, cmp.left, <<">">>, cmp.right)
      [] cmp.op = "GreaterThanOrEquals" ->
            visit_binary(ps, cmp.left, <<">=">>, cmp.right)
      [] cmp.op = "In" ->
            IF IsEmptyRow(cmp.right) THEN Out(<<"1=0">>, ps)
            ELSE visit_binary(ps, cmp.left, <<"IN">>, cmp.right)
      [] cmp.op = "NotIn" ->
            IF IsEmptyRow(cmp.right) THEN Out(<<"1=1">>, ps)
            ELSE visit_binary(ps, cmp.left, <<"NOT", "IN">>, cmp.right)
      [] cmp.op = "Like" ->
            visit_like(ps, cmp.left, <<"LIKE">>,
                       C_WILDCARD \o cmp.pattern \o C_WILDCARD)
      [] cmp.op = "NotLike" ->
            visit_like(ps, cmp.left, <<"NOT", "LIKE">>,
                       C_WILDCARD \o cmp.pattern \o C_WILDCARD)
      [] cmp.op = "BeginsWith" ->
            visit_like(ps, cmp.left, <<"LIKE">>, cmp.pattern \o C_WILDCARD)
      [] cmp.op = "NotBeginsWith" ->
            visit_like(ps, cmp.left, <<"NOT", "LIKE">>, cmp.pattern \o C_WILDCARD)
      [] cmp.op = "EndsInto" ->
            visit_like(ps, cmp.left, <<"LIKE">>, C_WILDCARD \o cmp.pattern)
      [] cmp.op = "NotEndsInto" ->
            visit_like(ps, cmp.left, <<"NOT", "LIKE">>, C_WILDCARD \o cmp.pattern)
      [] cmp.op = "Null" ->
            LET v == visit_database_value(ps, cmp.value)
            IN  Out(v.sql \o <<"IS", "NULL">>, v.parameters)
      [] cmp.op = "NotNull" ->
            LET v == visit_database_value(ps, cmp.value)
            IN  Out(v.sql \o <<"IS", "NOT", "NULL">>, v.parameters)
      [] cmp.op = "Between" ->
            visit_between(ps, cmp.value, <<"BETWEEN">>, cmp.left, cmp.right)
      [] cmp.op = "NotBetween" ->
            visit_between(ps, cmp.value, <<"NOT", "BETWEEN">>, cmp.left, cmp.right)

visit_expression(ps, expr) ==
    CASE expr.kind = "Compare" -> visit_compare(ps, expr.cmp)

RECURSIVE visit_conditions(_, _), visit_children_from(_, _, _, _)

\* No child is parenthesized.
NeedsParentheses_never(parent, child) == FALSE

\* An And or Or child of an And or Or of the other operator is parenthesized.
NeedsParentheses(parent, child) ==
    /\ child.kind \in {"And", "Or"}
    /\ child.kind # parent

visit_child(ps, parent, child) ==
    LET c == visit_conditions(ps, child)
    IN  IF NeedsParentheses(parent, child)
        THEN Out(<<"(">> \o c.sql \o <<")">>, c.parameters)
        ELSE c

\* The children of an And or Or from the k-th on, joined by the operator.
visit_children_from(ps, parent, children, k) ==
    IF k > Len(children) THEN Out(<<>>, ps)
    ELSE LET head == visit_child(ps, parent, children[k])
             tail == visit_children_from(head.parameters, parent, children, k + 1)
         IN  Out((IF k > 1 THEN <<IF parent = "And" THEN "AND" ELSE "OR">> ELSE <<>>)
                   \o head.sql \o tail.sql,
                 tail.parameters)

visit_conditions(ps, tree) ==
    CASE tree.kind = "Single" -> visit_expression(ps, tree.expr)
      [] tree.kind = "And" ->
            IF Len(tree.children) = 0 THEN Out(<<"1=1">>, ps)
            ELSE visit_children_from(ps, "And", tree.children, 1)
      [] tree.kind = "Or" ->
            IF Len(tree.children) = 0 THEN Out(<<"1=0">>, ps)
            ELSE visit_children_from(ps, "Or", tree.children, 1)
      [] tree.kind = "Not" ->
            LET c == visit_conditions(ps, tree.child)
            IN  Out(<<"NOT", "(">> \o c.sql \o <<")">>, c.parameters)

visit_select(ps, select) ==
    LET table == delimited_identifier(select.table.name)
        head == <<"SELECT", table \o ".*", "FROM", table>>
    IN  IF IsSome(select.conditions)
        THEN LET c == visit_conditions(ps, select.conditions.v)
             IN  Out(head \o <<"WHERE">> \o c.sql, c.parameters)
        ELSE Out(head, ps)

\* Sqlite::build: a new visitor with an empty parameter list renders the query
\* and hands back its text and its parameters.
Sqlite_build(q) ==
    LET out == visit_select(<<>>, q)
    IN  [sql |-> out.sql, params |-> out.parameters]

(***************************************************************************)
(* src/ast/function/row_number.rs                                          *)
(***************************************************************************)
\* Over::default(): both lists empty.
Over_default == [ordering |-> <<>>, partitioning |-> <<>>]

RowNumber_default == [over |-> Over_default]

\* T: IntoOrderDefinition: a column, or a column with a direction.
Ordered(c, direction) == [rust |-> "ordered", c |-> c, direction |-> direction]

into_order_definition(value) ==
    IF value.rust = "ordered"
    THEN [col |-> IntoColumn(value.c), order |-> Some(value.direction)]
    ELSE [col |-> IntoColumn(value), order |-> None]

\* Ordering::append
Ordering_append(ordering, definition) == Append(ordering, definition)

RowNumber_order_by(self, value) ==
    [self EXCEPT !.over.ordering = Ordering_append(@, into_order_definition(value))]

\* The new column put in front of the list.
RowNumber_partition_by_front(self, partition) ==
    [self EXCEPT !.over.partitioning = <<IntoColumn(partition)>> \o @]

RowNumber_partition_by(self, partition) ==
    [self EXCEPT !.over.partitioning = Append(@, IntoColumn(partition))]

row_number == RowNumber_default

\* The rendering of the function: ROW_NUMBER() OVER(PARTITION BY .. ORDER BY ..),
\* each sub-clause left out when its list is empty.
RECURSIVE visit_partitioning_from(_, _), visit_ordering_from(_, _)

visit_partitioning_from(partitioning, k) ==
    IF k > Len(partitioning) THEN <<>>
    ELSE (IF k > 1 THEN <<",">> ELSE <<>>)
           \o visit_column(<<>>, partitioning[k]).sql
           \o visit_partitioning_from(partitioning, k + 1)

visit_ordering_from(ordering, k) ==
    IF k > Len(ordering) THEN <<>>
    ELSE (IF k > 1 THEN <<",">> ELSE <<>>)
           \o visit_column(<<>>, ordering[k].col).sql
           \o (IF IsSome(ordering[k].order) THEN <<ordering[k].order.v>> ELSE <<>>)
           \o visit_ordering_from(ordering, k + 1)

visit_row_number(fun) ==
    <<"ROW_NUMBER", "(", ")", "OVER", "(">>
      \o (IF Len(fun.over.partitioning) = 0 THEN <<>>
          ELSE <<"PARTITION", "BY">> \o visit_partitioning_from(fun.over.partitioning, 1))
      \o (IF Len(fun.over.ordering) = 0 THEN <<>>
          ELSE <<"ORDER", "BY">> \o visit_ordering_from(fun.over.ordering, 1))
      \o <<")">>

(***************************************************************************)
(* What the caller passes in.                                              *)
(***************************************************************************)
\* Operands convertible to a column.
Operands == {Str("foo"), Tuple("users", Str("id")), Col(Column_new("bar"))}

\* Right-hand sides of the relational operations.
Comparisons == {I64(1), I64(2), Str("bar"), Col(Column_new("baz"))}

\* Bounds of between / not_between.
Limits == {I64(1), I64(2), Str("a")}

\* Value lists of in_selection / not_in_selection, the empty one included.
RECURSIVE ListsOfLen(_)
ListsOfLen(n) ==
    IF n = 0 THEN {<<>>}
    ELSE {Append(xs, x) : xs \in ListsOfLen(n - 1), x \in {I64(1), I64(2)}}

Selections == UNION {{Vec(xs) : xs \in ListsOfLen(n)} : n \in 0..MaxListLen}

\* Pattern texts, as the caller writes them.
Patterns == {"bar", "", "%", "a_b"}

(***************************************************************************)
(* The state machine.                                                      *)
(***************************************************************************)
Init ==
    /\ query = None
    /\ call = None
    /\ result = None
    /\ column = None
    /\ column_start = None
    /\ column_calls = <<>>
    /\ mysql_error = None
    /\ error = None
    /\ rn = None
    /\ rn_calls = <<>>
    /\ rn_sql = None

\* Select::from_table("users").so_that(cmp)
Composed(cmp) ==
    Some(Select_so_that(Select_from_table("users"), ConditionTree_from_Compare(cmp)))

\* What the comparison and rendering steps leave alone.
builders == <<column, column_start, column_calls, mysql_error, error,
             rn, rn_calls, rn_sql>>

Call1(op, self) == [op |-> op, self |-> self]
Call2(op, self, comparison) == [op |-> op, self |-> self, comparison |-> comparison]
CallIn(op, self, selection) == [op |-> op, self |-> self, selection |-> selection]
CallLike(op, self, pattern) == [op |-> op, self |-> self, pattern |-> pattern]
Call3(op, self, left, right) ==
    [op |-> op, self |-> self, left |-> left, right |-> right]

Equals ==
    \E u \in Operands, x \in Comparisons :
        /\ query' = Composed(equals(u, x))
        /\ call' = Some(Call2("equals", u, x))
        /\ result' = None
        /\ UNCHANGED builders

NotEquals ==
    \E u \in Operands, x \in Comparisons :
        /\ query' = Composed(not_equals(u, x))
        /\ call' = Some(Call2("not_equals", u, x))
        /\ result' = None
        /\ UNCHANGED builders

LessThan ==
    \E u \in Operands, x \in Comparisons :
        /\ query' = Composed(less_than(u, x))
        /\ call' = Some(Call2("less_than", u, x))
        /\ result' = None
        /\ UNCHANGED builders

LessThanOrEquals ==
    \E u \in Operands, x \in Comparisons :
        /\ query' = Composed(less_than_or_equals(u, x))
        /\ call' = Some(Call2("less_than_or_equals", u, x))
        /\ result' = None
        /\ UNCHANGED builders

GreaterThan ==
    \E u \in Operands, x \in Comparisons :
        /\ query' = Composed(greater_than(u, x))
        /\ call' = Some(Call2("greater_than", u, x))
        /\ result' = None
        /\ UNCHANGED builders

GreaterThanOrEquals ==
    \E u \in Operands, x \in Comparisons :
        /\ query' = Composed(greater_than_or_equals(u, x))
        /\ call' = Some(Call2("greater_than_or_equals", u, x))
        /\ result' = None
        /\ UNCHANGED builders

InSelection ==
    \E u \in Operands, xs \in Selections :
        /\ query' = Composed(in_selection(u, xs))
        /\ call' = Some(CallIn("in_selection", u, xs))
        /\ result' = None
        /\ UNCHANGED builders

NotInSelection ==
    \E u \in Operands, xs \in Selections :
        /\ query' = Composed(not_in_selection(u, xs))
        /\ call' = Some(CallIn("not_in_selection", u, xs))
        /\ result' = None
        /\ UNCHANGED builders

Like ==
    \E u \in Operands, p \in Patterns :
        /\ query' = Composed(like(u, p))
        /\ call' = Some(CallLike("like", u, p))
        /\ result' = None
        /\ UNCHANGED builders

NotLike ==
    \E u \in Operands, p \in Patterns :
        /\ query' = Composed(not_like(u, p))
        /\ call' = Some(CallLike("not_like", u, p))
        /\ result' = None
        /\ UNCHANGED builders

BeginsWith ==
    \E u \in Operands, p \in Patterns :
        /\ query' = Composed(begins_with(u, p))
        /\ call' = Some(CallLike("begins_with", u, p))
        /\ result' = None
        /\ UNCHANGED builders

NotBeginsWith ==
    \E u \in Operands, p \in Patterns :
        /\ query' = Composed(not_begins_with(u, p))
        /\ call' = Some(CallLike("not_begins_with", u, p))
        /\ result' = None
        /\ UNCHANGED builders

EndsInto ==
    \E u \in Operands, p \in Patterns :
        /\ query' = Composed(ends_into(u, p))
        /\ call' = Some(CallLike("ends_into", u, p))
        /\ result' = None
        /\ UNCHANGED builders

NotEndsInto ==
    \E u \in Operands, p \in Patterns :
        /\ query' = Composed(not_ends_into(u, p))
        /\ call' = Some(CallLike("not_ends_into", u, p))
        /\ result' = None
        /\ UNCHANGED builders

IsNull ==
    \E u \in Operands :
        /\ query' = Composed(is_null(u))
        /\ call' = Some(Call1("is_null", u))
        /\ result' = None
        /\ UNCHANGED builders

IsNotNull ==
    \E u \in Operands :
        /\ query' = Composed(is_not_null(u))
        /\ call' = Some(Call1("is_not_null", u))
        /\ result' = None
        /\ UNCHANGED builders

Between ==
    \E u \in Operands, lo \in Limits, hi \in Limits :
        /\ query' = Composed(between(u, lo, hi))
        /\ call' = Some(Call3("between", u, lo, hi))
        /\ result' = None
        /\ UNCHANGED builders

NotBetween ==
    \E u \in Operands, lo \in Limits, hi \in Limits :
        /\ query' = Composed(not_between(u, lo, hi))
        /\ call' = Some(Call3("not_between", u, lo, hi))
        /\ result' = None
        /\ UNCHANGED builders

\* let (sql, params) = Sqlite::build(query);
Build ==
    /\ IsSome(query)
    /\ result = None
    /\ result' = Some(Sqlite_build(query.v))
    /\ UNCHANGED <<query, call>>
    /\ UNCHANGED builders

Next ==
    \/ Equals \/ NotEquals \/ LessThan \/ LessThanOrEquals
    \/ GreaterThan \/ GreaterThanOrEquals
    \/ InSelection \/ NotInSelection
    \/ Like \/ NotLike \/ BeginsWith \/ NotBeginsWith \/ EndsInto \/ NotEndsInto
    \/ IsNull \/ IsNotNull \/ Between \/ NotBetween
    \/ Build

Spec == Init /\ [][Next]_vars

(***************************************************************************)
(* Composing condition trees: the caller starts from one condition and     *)
(* joins further ones to it with and / or, or negates the tree.            *)
(***************************************************************************)
\* The comparisons the trees are made of, each built by a Comparable operation
\* and each binding a different number of parameters.
TreeLeaves ==
    { is_null(Str("a")),
      between(Str("c"), I64(2), I64(3)) }

PairLeft == ConditionTree_from_Compare(equals(Str("b"), I64(1)))
PairRight == ConditionTree_from_Compare(in_selection(Str("d"), Vec(<<I64(4), I64(5)>>)))

\* What a tree can be joined with: one comparison or a tree of two.
TreeOperands ==
    {ConditionTree_from_Compare(c) : c \in TreeLeaves}
      \cup {ConditionTree_and(PairLeft, PairRight), ConditionTree_or(PairLeft, PairRight)}

\* What a tree can start from: any of these, or an empty And or Or.
TreeStarts == TreeOperands \cup {ConditionTree_And(<<>>), ConditionTree_Or(<<>>)}

RECURSIVE LeafCount(_), LeafCountFrom(_, _), NotCount(_), NotCountFrom(_, _)

\* Comparisons (and empty And / Or nodes) in a tree.
LeafCount(tree) ==
    CASE tree.kind = "Single" -> 1
      [] tree.kind = "Not" -> LeafCount(tree.child)
      [] tree.kind \in {"And", "Or"} ->
            IF Len(tree.children) = 0 THEN 1 ELSE LeafCountFrom(tree.children, 1)

LeafCountFrom(children, k) ==
    IF k > Len(children) THEN 0
    ELSE LeafCount(children[k]) + LeafCountFrom(children, k + 1)

\* Not nodes in a tree.
NotCount(tree) ==
    CASE tree.kind = "Single" -> 0
      [] tree.kind = "Not" -> 1 + NotCount(tree.child)
      [] tree.kind \in {"And", "Or"} -> NotCountFrom(tree.children, 1)

NotCountFrom(children, k) ==
    IF k > Len(children) THEN 0
    ELSE NotCount(children[k]) + NotCountFrom(children, k + 1)

Conditions == query.v.conditions.v

Recompose(tree) ==
    /\ LeafCount(tree) <= MaxLeaves
    /\ query' = Some(Select_so_that(query.v, tree))
    /\ result' = None

\* Select::from_table("users").so_that(tree)
Where ==
    \E t \in TreeStarts :
        /\ query = None
        /\ query' = Some(Select_so_that(Select_from_table("users"), t))
        /\ result' = None
        /\ UNCHANGED call
        /\ UNCHANGED builders

AndCondition ==
    \E t \in TreeOperands :
        /\ IsSome(query)
        /\ Recompose(ConditionTree_and(Conditions, t))
        /\ UNCHANGED call
        /\ UNCHANGED builders

OrCondition ==
    \E t \in TreeOperands :
        /\ IsSome(query)
        /\ Recompose(ConditionTree_or(Conditions, t))
        /\ UNCHANGED call
        /\ UNCHANGED builders

NotCondition ==
    /\ IsSome(query)
    /\ NotCount(Conditions) < MaxNots
    /\ Recompose(ConditionTree_not(Conditions))
    /\ UNCHANGED call
    /\ UNCHANGED builders

NextTree == Where \/ AndCondition \/ OrCondition \/ NotCondition \/ Build

SpecTree == Init /\ [][NextTree]_vars

(***************************************************************************)
(* Reading a rendered condition back under the precedence of SQL: NOT      *)
(* binds tighter than AND, AND tighter than OR, parentheses group.  The    *)
(* reader evaluates as it goes: the k-th comparison it meets has the truth *)
(* value truth[k]; 1=1 is true and 1=0 is false.  A reading is             *)
(* [ok, val, pos, n]: whether the text parsed, its value, the next token   *)
(* and the comparisons met so far.                                         *)
(***************************************************************************)
Reading(ok, val, pos, n) == [ok |-> ok, val |-> val, pos |-> pos, n |-> n]

TokenAt(toks, pos) == IF pos \in 1..Len(toks) THEN toks[pos] ELSE "<end>"

RelationalSymbols == {"=", "<>", "<", "<=", ">", ">="}

Keywords == {"AND", "OR", "NOT", "(", ")", ",", "IS", "NULL", "IN", "LIKE",
             "BETWEEN", "1=1", "1=0", "<end>"} \cup RelationalSymbols

IsOperandToken(tok) == tok \notin Keywords

RECURSIVE ClosingParenthesis(_, _)
\* The position of the first ")" at or after pos, 0 when there is none.
ClosingParenthesis(toks, pos) ==
    IF pos > Len(toks) THEN 0
    ELSE IF toks[pos] = ")" THEN pos
    ELSE ClosingParenthesis(toks, pos + 1)

\* The end (next position) of the predicate whose operator starts at pos, 0 on
\* a syntax error:   <sym> x | LIKE x | IN ( .. ) | BETWEEN x AND y
PredicateTail(toks, pos) ==
    LET tok == TokenAt(toks, pos)
    IN  CASE tok \in RelationalSymbols \cup {"LIKE"} ->
                IF IsOperandToken(TokenAt(toks, pos + 1)) THEN pos + 2 ELSE 0
          [] tok = "IN" ->
                LET close == ClosingParenthesis(toks, pos + 1)
                IN  IF TokenAt(toks, pos + 1) = "(" /\ close > pos + 2
                    THEN close + 1 ELSE 0
          [] tok = "BETWEEN" ->
                IF /\ IsOperandToken(TokenAt(toks, pos + 1))
                   /\ TokenAt(toks, pos + 2) = "AND"
                   /\ IsOperandToken(TokenAt(toks, pos + 3))
                THEN pos + 4 ELSE 0
          [] OTHER -> 0

\* The end of the predicate that starts with the operand at pos, 0 on an error.
PredicateEnd(toks, pos) ==
    LET tok == TokenAt(toks, pos + 1)
    IN  CASE tok = "IS" ->
                IF TokenAt(toks, pos + 2) = "NULL" THEN pos + 3
                ELSE IF TokenAt(toks, pos + 2) = "NOT" /\ TokenAt(toks, pos + 3) = "NULL"
                     THEN pos + 4 ELSE 0
          [] tok = "NOT" -> PredicateTail(toks, pos + 2)
          [] OTHER -> PredicateTail(toks, pos + 1)

RECURSIVE ReadOr(_, _, _, _), ReadOrRest(_, _, _), ReadAnd(_, _, _, _),
          ReadAndRest(_, _, _), ReadNot(_, _, _, _)

ReadPrimary(toks, pos, n, truth) ==
    LET tok == TokenAt(toks, pos)
    IN  CASE tok = "(" ->
                LET inner == ReadOr(toks, pos + 1, n, truth)
                IN  Reading(inner.ok /\ TokenAt(toks, inner.pos) = ")",
                            inner.val, inner.pos + 1, inner.n)
          [] tok = "1=1" -> Reading(TRUE, TRUE, pos + 1, n)
          [] tok = "1=0" -> Reading(TRUE, FALSE, pos + 1, n)
          [] OTHER ->
                LET end == PredicateEnd(toks, pos)
                IN  IF IsOperandToken(tok) /\ end > 0 /\ n + 1 \in DOMAIN truth
                    THEN Reading(TRUE, truth[n + 1], end, n + 1)
                    ELSE Reading(FALSE, FALSE, Len(toks) + 1, n)

ReadNot(toks, pos, n, truth) ==
    IF TokenAt(toks, pos) = "NOT"
    THEN LET r == ReadNot(toks, pos + 1, n, truth)
         IN  Reading(r.ok, ~r.val, r.pos, r.n)
    ELSE ReadPrimary(toks, pos, n, truth)

ReadAndRest(toks, l, truth) ==
    IF l.ok /\ TokenAt(toks, l.pos) = "AND"
    THEN LET r == ReadNot(toks, l.pos + 1, l.n, truth)
         IN  ReadAndRest(toks, Reading(r.ok, l.val /\ r.val, r.pos, r.n), truth)
    ELSE l

ReadAnd(toks, pos, n, truth) == ReadAndRest(toks, ReadNot(toks, pos, n, truth), truth)

ReadOrRest(toks, l, truth) ==
    IF l.ok /\ TokenAt(toks, l.pos) = "OR"
    THEN LET r == ReadAnd(toks, l.pos + 1, l.n, truth)
         IN  ReadOrRest(toks, Reading(r.ok, l.val \/ r.val, r.pos, r.n), truth)
    ELSE l

ReadOr(toks, pos, n, truth) == ReadOrRest(toks, ReadAnd(toks, pos, n, truth), truth)

\* The whole text read as one condition.
ReadCondition(toks, truth) ==
    LET r == ReadOr(toks, 1, 0, truth)
    IN  Reading(r.ok /\ r.pos = Len(toks) + 1, r.val, r.pos, r.n)

(***************************************************************************)
(* The meaning of a condition tree: the k-th comparison in tree order has  *)
(* the truth value truth[k]; membership in an empty list is false.         *)
(* A valuation is [val, n]: the value and the comparisons met so far.      *)
(***************************************************************************)
RECURSIVE Meaning(_, _, _), MeaningFrom(_, _, _, _, _)

MeaningOfCompare(cmp, n, truth) ==
    CASE cmp.op = "In" /\ IsEmptyRow(cmp.right) -> [val |-> FALSE, n |-> n]
      [] cmp.op = "NotIn" /\ IsEmptyRow(cmp.right) -> [val |-> TRUE, n |-> n]
      [] OTHER -> [val |-> truth[n + 1], n |-> n + 1]

Meaning(tree, n, truth) ==
    CASE tree.kind = "Single" -> MeaningOfCompare(tree.expr.cmp, n, truth)
      [] tree.kind = "Not" ->
            LET c == Meaning(tree.child, n, truth)
            IN  [val |-> ~c.val, n |-> c.n]
      [] tree.kind = "And" -> MeaningFrom("And", tree.children, 1, n, truth)
      [] tree.kind = "Or" -> MeaningFrom("Or", tree.children, 1, n, truth)

MeaningFrom(kind, children, k, n, truth) ==
    IF k > Len(children) THEN [val |-> (kind = "And"), n |-> n]
    ELSE LET head == Meaning(children[k], n, truth)
             tail == MeaningFrom(kind, children, k + 1, head.n, truth)
         IN  [val |-> IF kind = "And" THEN head.val /\ tail.val
                      ELSE head.val \/ tail.val,
              n |-> tail.n]

\* The tokens of the rendered text after WHERE.
WhereClause(sql) == SubSeq(sql, 6, Len(sql))

\* Every truth assignment to the comparisons of a tree.
Assignments(tree) == [1..LeafCount(tree) -> BOOLEAN]

(***************************************************************************)
(* Building a row_number(): the caller starts from row_number() and calls  *)
(* order_by and partition_by in any interleaving, then has it rendered.    *)
(***************************************************************************)
OrderArguments == {Str("created_at"), Ordered(Str("id"), "DESC")}

PartitionArguments == {Str("name"), Tuple("users", Str("id"))}

others == <<query, call, result, column, column_start, column_calls,
           mysql_error, error>>

RowNumber ==
    /\ rn' = Some(row_number)
    /\ rn_calls' = <<>>
    /\ rn_sql' = None
    /\ UNCHANGED others

OrderBy ==
    \E value \in OrderArguments :
        /\ IsSome(rn)
        /\ Len(rn_calls) < MaxCalls
        /\ rn' = Some(RowNumber_order_by(rn.v, value))
        /\ rn_calls' = Append(rn_calls, [op |-> "order_by", arg |-> value])
        /\ rn_sql' = None
        /\ UNCHANGED others

PartitionBy ==
    \E partition \in PartitionArguments :
        /\ IsSome(rn)
        /\ Len(rn_calls) < MaxCalls
        /\ rn' = Some(RowNumber_partition_by(rn.v, partition))
        /\ rn_calls' = Append(rn_calls, [op |-> "partition_by", arg |-> partition])
        /\ rn_sql' = None
        /\ UNCHANGED others

RenderRowNumber ==
    /\ IsSome(rn)
    /\ rn_sql = None
    /\ rn_sql' = Some(visit_row_number(rn.v))
    /\ UNCHANGED <<rn, rn_calls>>
    /\ UNCHANGED others

NextRowNumber == RowNumber \/ OrderBy \/ PartitionBy \/ RenderRowNumber

SpecRowNumber == Init /\ [][NextRowNumber]_vars

(***************************************************************************)
(* Building a column: a constructor or conversion, then table / opt_table  *)
(* / alias in any order.                                                   *)
(***************************************************************************)
ColumnNames == {"", "foo", "bar", "id", "name"}

TableNames == {"users", "posts", "cats", "dogs"}

AliasNames == {"a", "b", "c", "d"}

rest == <<query, call, result, mysql_error, error, rn, rn_calls, rn_sql>>

ColumnNew ==
    \E name \in ColumnNames :
        /\ column' = Some(Column_new(name))
        /\ column_start' = column'
        /\ column_calls' = <<>>
        /\ UNCHANGED rest

ColumnDefault ==
    /\ column' = Some(Column_default)
    /\ column_start' = column'
    /\ column_calls' = <<>>
    /\ UNCHANGED rest

ColumnFromStr ==
    \E s \in ColumnNames :
        /\ column' = Some(Column_from_str(s))
        /\ column_start' = column'
        /\ column_calls' = <<>>
        /\ UNCHANGED rest

ColumnFromString ==
    \E s \in ColumnNames :
        /\ column' = Some(Column_from_String(s))
        /\ column_start' = column'
        /\ column_calls' = <<>>
        /\ UNCHANGED rest

ColumnFromTuple ==
    \E t \in TableNames, s \in ColumnNames :
        /\ column' = Some(Column_from_tuple(Tuple(t, Str(s))))
        /\ column_start' = column'
        /\ column_calls' = <<>>
        /\ UNCHANGED rest

ColumnTable ==
    \E t \in TableNames :
        /\ IsSome(column)
        /\ Len(column_calls) < MaxColumnCalls
        /\ column' = Some(Column_table(column.v, t))
        /\ column_calls' = Append(column_calls, [op |-> "table", arg |-> t])
        /\ UNCHANGED column_start
        /\ UNCHANGED rest

ColumnOptTable ==
    \E t \in {None} \cup {Some(n) : n \in TableNames} :
        /\ IsSome(column)
        /\ Len(column_calls) < MaxColumnCalls
        /\ column' = Some(Column_opt_table(column.v, t))
        /\ column_calls' = Append(column_calls, [op |-> "opt_table", arg |-> t])
        /\ UNCHANGED column_start
        /\ UNCHANGED rest

ColumnAlias ==
    \E a \in AliasNames :
        /\ IsSome(column)
        /\ Len(column_calls) < MaxColumnCalls
        /\ column' = Some(Column_alias(column.v, a))
        /\ column_calls' = Append(column_calls, [op |-> "alias", arg |-> a])
        /\ UNCHANGED column_start
        /\ UNCHANGED rest

NextColumn ==
    \/ ColumnNew \/ ColumnDefault \/ ColumnFromStr \/ ColumnFromString
    \/ ColumnFromTuple \/ ColumnTable \/ ColumnOptTable \/ ColumnAlias

SpecColumn == Init /\ [][NextColumn]_vars

(***************************************************************************)
(* src/connector/mysql/error.rs: Error::from(my::error::Error).            *)
(*                                                                         *)
(* A message is the sequence of its characters, so that splitting it is    *)
(* computed.  A call either returns an Error or panics (unwrap of None, an *)
(* index past the end of a Vec).  Vec indices are Rust's, from 0.          *)
(***************************************************************************)
Whitespace == {" ", "\t", "\n"}

\* str::split: the pieces between the occurrences of sep, one more than there
\* are occurrences; current is the piece being read.
RECURSIVE split_from(_, _, _, _)
split_from(s, sep, k, current) ==
    IF k > Len(s) THEN <<current>>
    ELSE IF s[k] = sep THEN <<current>> \o split_from(s, sep, k + 1, <<>>)
    ELSE split_from(s, sep, k + 1, Append(current, s[k]))

split(s, sep) == split_from(s, sep, 1, <<>>)

\* str::split_whitespace: the non-empty runs of non-whitespace characters.
RECURSIVE split_whitespace_from(_, _, _)
split_whitespace_from(s, k, current) ==
    IF k > Len(s) THEN (IF current = <<>> THEN <<>> ELSE <<current>>)
    ELSE IF s[k] \in Whitespace
         THEN (IF current = <<>> THEN <<>> ELSE <<current>>)
              \o split_whitespace_from(s, k + 1, <<>>)
    ELSE split_whitespace_from(s, k + 1, Append(current, s[k]))

split_whitespace(message) == split_whitespace_from(message, 1, <<>>)

\* slice::last
last(v) == IF v = <<>> THEN None ELSE Some(v[Len(v)])

\* v[i] is in bounds; the element it reads.
InBounds(v, i) == i < Len(v)
At(v, i) == v[i + 1]

Panicked == [outcome |-> "panic"]
Returned(e) == [outcome |-> "returned", error |-> e]

QueryError(e) == [variant |-> "QueryError", source |-> e]

\* code == 1062
from_1062(message) ==
    LET words == split_whitespace(message) IN
    IF last(words) = None THEN Panicked
    ELSE LET splitted == split(last(words).v, "'") IN
         IF ~InBounds(splitted, 1) THEN Panicked
         ELSE LET parts == split(At(splitted, 1), "_") IN
              Returned([variant |-> "UniqueConstraintViolation",
                        field_name |-> At(parts, 0)])

\* code == 1263
from_1263(message) ==
    LET words == split_whitespace(message) IN
    IF last(words) = None THEN Panicked
    ELSE LET splitted == split(last(words).v, "'") IN
         IF ~InBounds(splitted, 1) THEN Panicked
         ELSE LET parts == split(At(splitted, 1), "_") IN
              Returned([variant |-> "NullConstraintViolation",
                        field_name |-> At(parts, 0)])

\* code == 1049
from_1049(message) ==
    LET words == split_whitespace(message) IN
    IF last(words) = None THEN Panicked
    ELSE LET splitted == split(last(words).v, "'") IN
         IF ~InBounds(splitted, 1) THEN Panicked
         ELSE Returned([variant |-> "DatabaseDoesNotExist",
                        db_name |-> At(splitted, 1)])

\* code == 1007
from_1007(message) ==
    LET words == split_whitespace(message) IN
    IF ~InBounds(words, 3) THEN Panicked
    ELSE LET splitted == split(At(words, 3), "'") IN
         IF ~InBounds(splitted, 1) THEN Panicked
         ELSE Returned([variant |-> "DatabaseAlreadyExists",
                        db_name |-> At(splitted, 1)])

\* code == 1044
from_1044(message) ==
    LET words == split_whitespace(message) IN
    IF last(words) = None THEN Panicked
    ELSE LET splitted == split(last(words).v, "'") IN
         IF ~InBounds(splitted, 1) THEN Panicked
         ELSE Returned([variant |-> "DatabaseAccessDenied",
                        db_name |-> At(splitted, 1)])

\* code == 1045
from_1045(message) ==
    LET words == split_whitespace(message) IN
    IF ~InBounds(words, 4) THEN Panicked
    ELSE LET host == split(At(words, 4), "@")
             splitted == split(At(host, 0), "'") IN
         IF ~InBounds(splitted, 1) THEN Panicked
         ELSE Returned([variant |-> "AuthenticationFailed",
                        user |-> At(splitted, 1)])

DriverError(kind) == [kind |-> "DriverError", driver |-> kind]
MySqlError(code, message) == [kind |-> "MySqlError", code |-> code, message |-> message]

\* impl From<my::error::Error> for Error
Error_from(e) ==
    CASE e.kind = "DriverError" ->
            (CASE e.driver = "ConnectTimeout" -> Returned([variant |-> "ConnectTimeout"])
               [] e.driver = "Timeout" -> Returned([variant |-> "Timeout"])
               [] OTHER -> Returned(QueryError(e)))
      [] e.kind = "MySqlError" /\ e.code = 1062 -> from_1062(e.message)
      [] e.kind = "MySqlError" /\ e.code = 1263 -> from_1263(e.message)
      [] e.kind = "MySqlError" /\ e.code = 1049 -> from_1049(e.message)
      [] e.kind = "MySqlError" /\ e.code = 1007 -> from_1007(e.message)
      [] e.kind = "MySqlError" /\ e.code = 1044 -> from_1044(e.message)
      [] e.kind = "MySqlError" /\ e.code = 1045 -> from_1045(e.message)
      [] OTHER -> Returned(QueryError(e))

(***************************************************************************)
(* The errors handed to Error::from.                                       *)
(***************************************************************************)
\* ''
Message_empty ==
    <<>>

\* ' '
Message_blank ==
    <<" ">>

\* 'x'
Message_word ==
    <<"x">>

\* "'db'"
Message_quoted_word ==
    <<"'", "d", "b", "'">>

\* 'a b c'
Message_three_words ==
    <<"a", " ", "b", " ", "c">>

\* "a b c d'"
Message_open_quote ==
    <<"a", " ", "b", " ", "c", " ", "d", "'">>

\* "Duplicate entry '1' for key 'id_u'"
Message_duplicate_entry ==
    <<"D", "u", "p", "l", "i", "c", "a", "t", "e", " ", "e", "n", "t", "r",
      "y", " ", "'", "1", "'", " ", "f", "o", "r", " ", "k", "e", "y", " ",
      "'", "i", "d", "_", "u", "'">>

\* "key 'name'"
Message_key ==
    <<"k", "e", "y", " ", "'", "n", "a", "m", "e", "'">>

\* "key<tab>'id_u'"
Message_tab ==
    <<"k", "e", "y", "\t", "'", "i", "d", "_", "u", "'">>

\* "column 'name' at row 1"
Message_null_supplied ==
    <<"c", "o", "l", "u", "m", "n", " ", "'", "n", "a", "m", "e", "'", " ",
      "a", "t", " ", "r", "o", "w", " ", "1">>

\* "Unknown database 'db'"
Message_unknown_database ==
    <<"U", "n", "k", "n", "o", "w", "n", " ", "d", "a", "t", "a", "b", "a",
      "s", "e", " ", "'", "d", "b", "'">>

\* "Can't create database 'db'; database exists"
Message_database_exists ==
    <<"C", "a", "n", "'", "t", " ", "c", "r", "e", "a", "t", "e", " ", "d",
      "a", "t", "a", "b", "a", "s", "e", " ", "'", "d", "b", "'", ";", " ",
      "d", "a", "t", "a", "b", "a", "s", "e", " ", "e", "x", "i", "s", "t",
      "s">>

\* "Access denied for user 'u'@'h' to database 'db'"
Message_access_denied ==
    <<"A", "c", "c", "e", "s", "s", " ", "d", "e", "n", "i", "e", "d", " ",
      "f", "o", "r", " ", "u", "s", "e", "r", " ", "'", "u", "'", "@", "'",
      "h", "'", " ", "t", "o", " ", "d", "a", "t", "a", "b", "a", "s", "e",
      " ", "'", "d", "b", "'">>

\* "Access denied for user 'root'@'localhost' (using password: YES)"
Message_using_password ==
    <<"A", "c", "c", "e", "s", "s", " ", "d", "e", "n", "i", "e", "d", " ",
      "f", "o", "r", " ", "u", "s", "e", "r", " ", "'", "r", "o", "o", "t",
      "'", "@", "'", "l", "o", "c", "a", "l", "h", "o", "s", "t", "'", " ",
      "(", "u", "s", "i", "n", "g", " ", "p", "a", "s", "s", "w", "o", "r",
      "d", ":", " ", "Y", "E", "S", ")">>

Messages ==
    {Message_empty,
     Message_blank,
     Message_word,
     Message_quoted_word,
     Message_three_words,
     Message_open_quote,
     Message_duplicate_entry,
     Message_key,
     Message_tab,
     Message_null_supplied,
     Message_unknown_database,
     Message_database_exists,
     Message_access_denied,
     Message_using_password}

ServerCodes == {1062, 1263, 1049, 1007, 1044, 1045, 1064, 1146}

DriverErrors == {"ConnectTimeout", "Timeout", "CouldNotConnect", "SetupError"}

OtherErrors == {"IoError", "UrlError"}

MySqlErrors ==
    {DriverError(k) : k \in DriverErrors}
    \cup {MySqlError(c, m) : c \in ServerCodes, m \in Messages}
    \cup {[kind |-> k] : k \in OtherErrors}

ErrorFrom ==
    \E e \in MySqlErrors :
        /\ mysql_error' = Some(e)
        /\ error' = Some(Error_from(e))
        /\ UNCHANGED <<query, call, result, column, column_start, column_calls,
                       rn, rn_calls, rn_sql>>

SpecError == Init /\ [][ErrorFrom]_vars

(***************************************************************************)
(* Claims.                                                                 *)
(***************************************************************************)
Sql == result.v.sql
Params == result.v.params

\* The query text up to the condition, as the doc tests of compare.rs show it.
SelectHead == <<"SELECT", "\"users\".*", "FROM", "\"users\"", "WHERE">>

Placeholders(sql) == {i \in 1..Len(sql) : sql[i] = "?"}

\* The parameter a caller's argument stands for: none when it is a column.
Bound(value) == IF value.kind = "Parameterized" THEN <<value.value>> ELSE <<>>

RECURSIVE BoundRow(_, _)
BoundRow(values, k) ==
    IF k > Len(values) THEN <<>> ELSE Bound(values[k]) \o BoundRow(values, k + 1)

\* The values one comparison on a column binds, in the order of its arguments.
BoundByCompare(cmp) ==
    CASE cmp.op \in {"Null", "NotNull"} -> <<>>
      [] cmp.op \in {"Between", "NotBetween"} -> Bound(cmp.left) \o Bound(cmp.right)
      [] cmp.op \in {"In", "NotIn"} -> BoundRow(cmp.right.values, 1)
      [] cmp.op \in {"Like", "NotLike"} -> <<Text("%" \o cmp.pattern \o "%")>>
      [] cmp.op \in {"BeginsWith", "NotBeginsWith"} -> <<Text(cmp.pattern \o "%")>>
      [] cmp.op \in {"EndsInto", "NotEndsInto"} -> <<Text("%" \o cmp.pattern)>>
      [] OTHER -> Bound(cmp.right)

RECURSIVE BoundByTree(_), BoundByChildren(_, _)
\* The values a tree binds, comparison by comparison from left to right.
BoundByTree(tree) ==
    CASE tree.kind = "Single" -> BoundByCompare(tree.expr.cmp)
      [] tree.kind = "Not" -> BoundByTree(tree.child)
      [] OTHER -> BoundByChildren(tree.children, 1)

BoundByChildren(children, k) ==
    IF k > Len(children) THEN <<>>
    ELSE BoundByTree(children[k]) \o BoundByChildren(children, k + 1)

RECURSIVE AllLeaves(_), LeavesOfChildren(_, _)
\* The comparisons of a tree from left to right.
AllLeaves(tree) ==
    CASE tree.kind = "Single" -> <<tree.expr.cmp>>
      [] tree.kind = "Not" -> AllLeaves(tree.child)
      [] OTHER -> LeavesOfChildren(tree.children, 1)

LeavesOfChildren(children, k) ==
    IF k > Len(children) THEN <<>>
    ELSE AllLeaves(children[k]) \o LeavesOfChildren(children, k + 1)

\* C1: the rendered text holds as many placeholders as there are parameters,
\* the parameters are the values the comparisons of the tree bind, in the order
\* of the tree from left to right, and a tree made of IS NULL / IS NOT NULL
\* comparisons alone has no placeholder and no parameter.
C1_PlaceholdersMatchParameters ==
    IsSome(result) =>
        /\ Cardinality(Placeholders(Sql)) = Len(Params)
        /\ Params = BoundByTree(Conditions)
        /\ (\A k \in DOMAIN AllLeaves(Conditions) :
                AllLeaves(Conditions)[k].op \in {"Null", "NotNull"})
              => (Params = <<>> /\ Placeholders(Sql) = {})

\* A rendered tree that begins with an IS NULL comparison and binds the four
\* bounds of two BETWEEN comparisons after it.
C1_Witness ==
    /\ IsSome(result)
    /\ Conditions.kind \in {"And", "Or"}
    /\ Len(AllLeaves(Conditions)) = 3
    /\ AllLeaves(Conditions)[1].op = "Null"
    /\ Params = <<Integer(2), Integer(3), Integer(2), Integer(3)>>
    /\ Cardinality(Placeholders(Sql)) = 4

\* C2: the rendered condition, read back under SQL precedence, has the truth
\* value of the tree under every truth assignment to its comparisons.
C2_PrecedencePreserved ==
    IsSome(result) =>
        \A truth \in Assignments(Conditions) :
            LET r == ReadCondition(WhereClause(Sql), truth)
            IN  r.ok /\ r.val = Meaning(Conditions, 0, truth).val

\* A rendered tree that mixes all three operators: an Or over a negation and
\* an And.
C2_Witness ==
    /\ IsSome(result)
    /\ Conditions.kind = "Or"
    /\ \E i, j \in DOMAIN Conditions.children :
           /\ Conditions.children[i].kind = "Not"
           /\ Conditions.children[j].kind = "And"

\* What each operand of the model is as a column, and how it reads in the text.
OperandColumn(u) ==
    CASE u = Str("foo") -> [name |-> "foo", table |-> None, alias |-> None]
      [] u = Tuple("users", Str("id")) ->
            [name |-> "id", table |-> Some([name |-> "users"]), alias |-> None]
      [] u = Col(Column_new("bar")) -> [name |-> "bar", table |-> None, alias |-> None]

OperandText(u) ==
    CASE u = Str("foo") -> "\"foo\""
      [] u = Tuple("users", Str("id")) -> "\"users\".\"id\""
      [] u = Col(Column_new("bar")) -> "\"bar\""

Subject(u) == [kind |-> "Column", col |-> OperandColumn(u)]

\* What an argument is as a value, the text it renders to and what it binds.
ArgumentValue(x) ==
    CASE x.rust = "i64" -> [kind |-> "Parameterized", value |-> [t |-> "Integer", i |-> x.i]]
      [] x.rust = "str" -> [kind |-> "Parameterized", value |-> [t |-> "Text", s |-> x.s]]
      [] x.rust = "Column" -> [kind |-> "Column", col |-> x.col]

ArgumentText(x) == IF x.rust = "Column" THEN <<"\"" \o x.col.name \o "\"">> ELSE <<"?">>

ArgumentBound(x) ==
    CASE x.rust = "i64" -> <<[t |-> "Integer", i |-> x.i]>>
      [] x.rust = "str" -> <<[t |-> "Text", s |-> x.s]>>
      [] x.rust = "Column" -> <<>>

\* The comparison the last Comparable operation left in the query.
Composition == Conditions.expr.cmp

Called(ops) == IsSome(call) /\ call.v.op \in ops

LikeOperations ==
    {"like", "not_like", "begins_with", "not_begins_with", "ends_into", "not_ends_into"}

\* C3: like and not_like bind %p%, begins_with and not_begins_with bind p%,
\* ends_into and not_ends_into bind %p, each as the single parameter; the
\* positive forms render LIKE ? and the negated forms NOT LIKE ?.
C3_LikeWrapping ==
    (Called(LikeOperations) /\ IsSome(result)) =>
        LET c == call.v
            wrapped == CASE c.op \in {"like", "not_like"} -> "%" \o c.pattern \o "%"
                         [] c.op \in {"begins_with", "not_begins_with"} -> c.pattern \o "%"
                         [] c.op \in {"ends_into", "not_ends_into"} -> "%" \o c.pattern
            keyword == IF c.op \in {"like", "begins_with", "ends_into"}
                       THEN <<"LIKE">> ELSE <<"NOT", "LIKE">>
        IN  /\ Params = <<[t |-> "Text", s |-> wrapped]>>
            /\ Sql = SelectHead \o <<OperandText(c.self)>> \o keyword \o <<"?">>

\* not_begins_with("bar") rendered: NOT LIKE ? bound to bar%.
C3_Witness ==
    /\ IsSome(result)
    /\ Called({"not_begins_with"})
    /\ call.v.pattern = "bar"
    /\ Params = <<[t |-> "Text", s |-> "bar%"]>>
    /\ Sql = SelectHead \o <<"\"foo\"", "NOT", "LIKE", "?">>

RelationalOperations ==
    {"equals", "not_equals", "less_than", "less_than_or_equals", "greater_than",
     "greater_than_or_equals"}

RelationalVariant(op) ==
    CASE op = "equals" -> "Equals"
      [] op = "not_equals" -> "NotEquals"
      [] op = "less_than" -> "LessThan"
      [] op = "less_than_or_equals" -> "LessThanOrEquals"
      [] op = "greater_than" -> "GreaterThan"
      [] op = "greater_than_or_equals" -> "GreaterThanOrEquals"

RelationalSymbol(op) ==
    CASE op = "equals" -> "="
      [] op = "not_equals" -> "<>"
      [] op = "less_than" -> "<"
      [] op = "less_than_or_equals" -> "<="
      [] op = "greater_than" -> ">"
      [] op = "greater_than_or_equals" -> ">="

\* C4: each relational operation on a column c with argument v builds the
\* variant of its name with c on the left and v on the right, and renders as
\* the quoted column, the operator's symbol and one placeholder bound to v
\* (a column given as v renders as that column and binds nothing).
C4_RelationalOperandOrder ==
    Called(RelationalOperations) =>
        LET c == call.v
        IN  /\ Composition = [op |-> RelationalVariant(c.op),
                              left |-> Subject(c.self),
                              right |-> ArgumentValue(c.comparison)]
            /\ IsSome(result) =>
                  /\ Sql = SelectHead \o <<OperandText(c.self), RelationalSymbol(c.op)>>
                             \o ArgumentText(c.comparison)
                  /\ Params = ArgumentBound(c.comparison)

\* ("users", "id").less_than(2) rendered.
C4_Witness ==
    /\ IsSome(result)
    /\ Called({"less_than"})
    /\ call.v.comparison = I64(2)
    /\ Sql = SelectHead \o <<"\"users\".\"id\"", "<", "?">>
    /\ Params = <<[t |-> "Integer", i |-> 2]>>

\* C5: between and not_between keep (subject, lower, upper) in that order and
\* render s [NOT] BETWEEN ? AND ? with the parameters [lo, hi] in the order
\* given, whichever of the two is the larger.
C5_BetweenOrder ==
    Called({"between", "not_between"}) =>
        LET c == call.v
        IN  /\ Composition = [op |-> IF c.op = "between" THEN "Between" ELSE "NotBetween",
                              value |-> Subject(c.self),
                              left |-> ArgumentValue(c.left),
                              right |-> ArgumentValue(c.right)]
            /\ IsSome(result) =>
                  /\ Sql = SelectHead \o <<OperandText(c.self)>>
                             \o (IF c.op = "between" THEN <<"BETWEEN">>
                                 ELSE <<"NOT", "BETWEEN">>)
                             \o <<"?", "AND", "?">>
                  /\ Params = ArgumentBound(c.left) \o ArgumentBound(c.right)

\* between(2, 1) rendered: the larger bound stays first.
C5_Witness ==
    /\ IsSome(result)
    /\ Called({"between"})
    /\ call.v.left = I64(2)
    /\ call.v.right = I64(1)
    /\ Params = <<[t |-> "Integer", i |-> 2], [t |-> "Integer", i |-> 1]>>

\* n placeholders separated by commas.
CommaSeparated(n) == [k \in 1..(2 * n - 1) |-> IF k % 2 = 1 THEN "?" ELSE ","]

\* C6: on a list of n >= 1 values in_selection / not_in_selection render
\* IN (..) / NOT IN (..) with n comma separated placeholders and bind the n
\* values in the order of the list.
C6_InSelectionList ==
    (/\ Called({"in_selection", "not_in_selection"})
     /\ Len(call.v.selection.items) >= 1
     /\ IsSome(result)) =>
        LET c == call.v
            items == c.selection.items
        IN  /\ Sql = SelectHead \o <<OperandText(c.self)>>
                       \o (IF c.op = "in_selection" THEN <<"IN">> ELSE <<"NOT", "IN">>)
                       \o <<"(">> \o CommaSeparated(Len(items)) \o <<")">>
            /\ Params = [k \in 1..Len(items) |-> [t |-> "Integer", i |-> items[k].i]]

\* not_in_selection(vec![2, 1]) rendered.
C6_Witness ==
    /\ IsSome(result)
    /\ Called({"not_in_selection"})
    /\ call.v.selection = Vec(<<I64(2), I64(1)>>)
    /\ Sql = SelectHead \o <<"\"foo\"", "NOT", "IN", "(", "?", ",", "?", ")">>
    /\ Params = <<[t |-> "Integer", i |-> 2], [t |-> "Integer", i |-> 1]>>

\* C7: on an empty list the text holds no empty parenthesis pair, no
\* placeholder and no parameter, and reads as a condition without comparisons
\* that is false for in_selection and true for not_in_selection.
C7_EmptySelection ==
    (/\ Called({"in_selection", "not_in_selection"})
     /\ Len(call.v.selection.items) = 0
     /\ IsSome(result)) =>
        LET r == ReadCondition(WhereClause(Sql), <<>>)
        IN  /\ \A i \in 1..(Len(Sql) - 1) : ~(Sql[i] = "(" /\ Sql[i + 1] = ")")
            /\ Placeholders(Sql) = {}
            /\ Params = <<>>
            /\ r.ok
            /\ r.n = 0
            /\ r.val = (call.v.op = "not_in_selection")

\* in_selection on an empty list, rendered.
C7_Witness ==
    /\ IsSome(result)
    /\ Called({"in_selection"})
    /\ call.v.selection = Vec(<<>>)
    /\ ~ReadCondition(WhereClause(Sql), <<>>).val

\* The text each argument of order_by / partition_by renders to.
RowNumberArgumentText(arg) ==
    CASE arg = Str("created_at") -> <<"\"created_at\"">>
      [] arg = Ordered(Str("id"), "DESC") -> <<"\"id\"", "DESC">>
      [] arg = Str("name") -> <<"\"name\"">>
      [] arg = Tuple("users", Str("id")) -> <<"\"users\".\"id\"">>

RECURSIVE ArgumentsOf(_, _, _)
\* The arguments of the calls of one operation from the k-th call on, in call
\* order, as text separated by commas.
ArgumentsOf(op, calls, k) ==
    IF k > Len(calls) THEN <<>>
    ELSE IF calls[k].op # op THEN ArgumentsOf(op, calls, k + 1)
    ELSE LET tail == ArgumentsOf(op, calls, k + 1)
         IN  RowNumberArgumentText(calls[k].arg)
               \o (IF tail = <<>> THEN <<>> ELSE <<",">> \o tail)

\* C8: whatever the interleaving of the calls, the function renders as
\* ROW_NUMBER() OVER(..) with the PARTITION BY columns in call order before the
\* ORDER BY items in call order, a sub-clause without calls left out and an
\* empty OVER() when there was no call.
C8_RowNumberClauses ==
    IsSome(rn_sql) =>
        LET partitions == ArgumentsOf("partition_by", rn_calls, 1)
            orders == ArgumentsOf("order_by", rn_calls, 1)
        IN  rn_sql.v = <<"ROW_NUMBER", "(", ")", "OVER", "(">>
                         \o (IF partitions = <<>> THEN <<>>
                             ELSE <<"PARTITION", "BY">> \o partitions)
                         \o (IF orders = <<>> THEN <<>> ELSE <<"ORDER", "BY">> \o orders)
                         \o <<")">>

\* order_by, then two partition_by calls, rendered.
C8_Witness ==
    /\ IsSome(rn_sql)
    /\ Len(rn_calls) = 3
    /\ rn_calls[1].op = "order_by"
    /\ rn_calls[2] = [op |-> "partition_by", arg |-> Str("name")]
    /\ rn_calls[3] = [op |-> "partition_by", arg |-> Tuple("users", Str("id"))]
    /\ SubSeq(rn_sql.v, 6, 10) = <<"PARTITION", "BY", "\"name\"", ",", "\"users\".\"id\"">>

\* C10: every column built through the public constructors and conversions
\* and any table / opt_table / alias calls has a non-empty name.
C10_NameNonEmpty == IsSome(column) => column.v.name # ""

\* The calls of a log that set the table, and those that set the alias.
SetsTable(c) == c.op = "table" \/ (c.op = "opt_table" /\ IsSome(c.arg))
SetsAlias(c) == c.op = "alias"

TableSetters(calls) == {i \in 1..Len(calls) : SetsTable(calls[i])}
AliasSetters(calls) == {i \in 1..Len(calls) : SetsAlias(calls[i])}

Last(S) == CHOOSE i \in S : \A j \in S : j <= i

\* The table name a table-setting call names.
TableArgument(c) == IF c.op = "table" THEN c.arg ELSE c.arg.v

\* C11: after any sequence of table / opt_table / alias calls on a column,
\* name is the constructed name, table is the table of the last table(t) or
\* opt_table(Some(t)) call (the constructed table when there was none, so
\* opt_table(None) and alias change no table), and alias is the alias of the
\* last alias(a) call (the constructed alias when there was none, so table
\* and opt_table change no alias).
C11_LastSetterWins ==
    IsSome(column) =>
        /\ column.v.name = column_start.v.name
        /\ column.v.table =
              IF TableSetters(column_calls) = {} THEN column_start.v.table
              ELSE Some(Table_from(
                       TableArgument(column_calls[Last(TableSetters(column_calls))])))
        /\ column.v.alias =
              IF AliasSetters(column_calls) = {} THEN column_start.v.alias
              ELSE Some(column_calls[Last(AliasSetters(column_calls))].arg)

\* Column::new("id").table("users").opt_table(None) still has its table.
C11_Witness ==
    /\ IsSome(column)
    /\ column_start.v = Column_new("id")
    /\ Len(column_calls) = 2
    /\ column_calls[1].op = "table"
    /\ column_calls[1].arg = "users"
    /\ column_calls[2].op = "opt_table"
    /\ column_calls[2].arg = None
    /\ column.v = [name |-> "id", table |-> Some([name |-> "users"]), alias |-> None]

\* The variant the error kind and code stand for.
VariantFor(e) ==
    CASE e.kind = "DriverError" /\ e.driver = "ConnectTimeout" -> "ConnectTimeout"
      [] e.kind = "DriverError" /\ e.driver = "Timeout" -> "Timeout"
      [] e.kind = "MySqlError" /\ e.code = 1062 -> "UniqueConstraintViolation"
      [] e.kind = "MySqlError" /\ e.code = 1263 -> "NullConstraintViolation"
      [] e.kind = "MySqlError" /\ e.code = 1049 -> "DatabaseDoesNotExist"
      [] e.kind = "MySqlError" /\ e.code = 1007 -> "DatabaseAlreadyExists"
      [] e.kind = "MySqlError" /\ e.code = 1044 -> "DatabaseAccessDenied"
      [] e.kind = "MySqlError" /\ e.code = 1045 -> "AuthenticationFailed"
      [] OTHER -> "QueryError"

\* C12: every MySQL error is translated into exactly one variant, the one
\* its kind and code stand for, whatever its message.
C12_DecidedByKindAndCode ==
    IsSome(error) =>
        /\ error.v.outcome = "returned"
        /\ error.v.error.variant = VariantFor(mysql_error.v)

\* The server codes whose message is taken apart.
ParsedCodes == {1062, 1263, 1049, 1007, 1044, 1045}

\* C14: translating a server error with one of the six codes whose message
\* is taken apart completes for every message text; it never panics.
C14_TranslationCompletes ==
    (/\ IsSome(error)
     /\ mysql_error.v.kind = "MySqlError"
     /\ mysql_error.v.code \in ParsedCodes)
        => error.v.outcome = "returned"

\* The operation of the same name on DatabaseValue::Column of the operand
\* converted to a column, given the arguments of the call c as they were passed.
SameNamedOperation(c) ==
    LET val == DatabaseValue_from_Column(IntoColumn(c.self)) IN
    CASE c.op = "equals" -> DatabaseValue_equals(val, c.comparison)
      [] c.op = "not_equals" -> DatabaseValue_not_equals(val, c.comparison)
      [] c.op = "less_than" -> DatabaseValue_less_than(val, c.comparison)
      [] c.op = "less_than_or_equals" -> DatabaseValue_less_than_or_equals(val, c.comparison)
      [] c.op = "greater_than" -> DatabaseValue_greater_than(val, c.comparison)
      [] c.op = "greater_than_or_equals" -> DatabaseValue_greater_than_or_equals(val, c.comparison)
      [] c.op = "in_selection" -> DatabaseValue_in_selection(val, c.selection)
      [] c.op = "not_in_selection" -> DatabaseValue_not_in_selection(val, c.selection)
      [] c.op = "like" -> DatabaseValue_like(val, c.pattern)
      [] c.op = "not_like" -> DatabaseValue_not_like(val, c.pattern)
      [] c.op = "begins_with" -> DatabaseValue_begins_with(val, c.pattern)
      [] c.op = "not_begins_with" -> DatabaseValue_not_begins_with(val, c.pattern)
      [] c.op = "ends_into" -> DatabaseValue_ends_into(val, c.pattern)
      [] c.op = "not_ends_into" -> DatabaseValue_not_ends_into(val, c.pattern)
      [] c.op = "is_null" -> DatabaseValue_is_null(val)
      [] c.op = "is_not_null" -> DatabaseValue_is_not_null(val)
      [] c.op = "between" -> DatabaseValue_between(val, c.left, c.right)
      [] c.op = "not_between" -> DatabaseValue_not_between(val, c.left, c.right)

\* C13: each of the 18 Comparable operations called on an operand that
\* converts to a column returns what the operation of the same name returns
\* on DatabaseValue::Column of the converted column with the same arguments
\* in the same order.
C13_BlanketDelegates ==
    IsSome(call) => Composition = SameNamedOperation(call.v)

\* ("users", "id").not_between(1, 2) is NotBetween on the column users.id.
C13_Witness ==
    /\ IsSome(call)
    /\ call.v.op = "not_between"
    /\ call.v = Call3("not_between", Tuple("users", Str("id")), I64(1), I64(2))
    /\ Composition =
          [op |-> "NotBetween",
           value |-> [kind |-> "Column",
                      col |-> [name |-> "id", table |-> Some([name |-> "users"]),
                               alias |-> None]],
           left |-> [kind |-> "Parameterized", value |-> [t |-> "Integer", i |-> 1]],
           right |-> [kind |-> "Parameterized", value |-> [t |-> "Integer", i |-> 2]]]

====
